---- MODULE Spec2Model ----
(***************************************************************************)
(* A model of Backend/server.js: the Express routes for notes and grade    *)
(* records, the authentication middleware in front of them, and the        *)
(* Mongoose collections behind them.                                       *)
(*                                                                         *)
(* JavaScript values are modelled as follows.  A primitive (a boolean,     *)
(* null, undefined, a title) is a TLA+ string: "true", "false", "null",    *)
(* "undefined", "t1".  A courseTag is a sequence of one-character strings  *)
(* so that the schema's trim setter can be computed; <<"undefined">> and   *)
(* <<"null">> stand for an undefined and a null courseTag.  An _id is a    *)
(* positive integer; 0 stands for a string that is not an ObjectId.  A     *)
(* grade point is an integer number of hundredths (3.75 is 375).  A        *)
(* timestamp is an integer.                                                *)
(***************************************************************************)
EXTENDS Integers, Sequences, FiniteSets, TLC

VARIABLES
    notes,      \* the Note collection: a set of documents
    grades,     \* the GradeRecord collection: a set of documents
    clock,      \* Date.now()
    noteSeq,    \* number of Note _ids handed out so far
    gradeSeq,   \* number of GradeRecord _ids handed out so far
    req,        \* the request handled last
    res,        \* the response to it
    inflight,   \* the requests that overlap in time: the Note collection when
                \* the first of them arrived, and for each its position
    users,      \* the User collection: its documents in the order of insertion
    registering \* the register requests whose handler awaits newUser.save()

vars == <<notes, grades, clock, noteSeq, gradeSeq, req, res, inflight, users, registering>>

-----------------------------------------------------------------------------
(* Bounds *)

MaxNotes == 2       \* notes created in the lifecycle, ownership and list scenarios
MaxTextNotes == 1   \* notes created in the text scenario
MaxGrades == 2      \* grade records created in the grade scenarios
MaxAuthDocs == 1    \* notes, and grade records, created in the authentication scenario
MaxErrorDocs == 1   \* notes, and grade records, in the error scenario
MaxInFlight == 2    \* requests that overlap in time
MaxRegistering == 2 \* register requests that await their save at a time

-----------------------------------------------------------------------------
(* JavaScript values *)

Undefined == "undefined"
Null == "null"
JsTrue == "true"
JsFalse == "false"

UndefinedTag == <<Undefined>>
NullTag == <<Null>>
General == <<"G", "e", "n", "e", "r", "a", "l">>

NoteFields == {"title", "content", "courseTag", "isPinned", "isArchived", "isDeleted"}
FlagFields == {"isPinned", "isArchived", "isDeleted"}

IsUndefined(f, v) == IF f = "courseTag" THEN v = UndefinedTag ELSE v = Undefined

\* String.prototype.trim, as the schema's trim setter applies it.
RECURSIVE TrimLeft(_)
TrimLeft(s) == IF s # <<>> /\ Head(s) = " " THEN TrimLeft(Tail(s)) ELSE s

RECURSIVE TrimRight(_)
TrimRight(s) ==
    IF s # <<>> /\ s[Len(s)] = " " THEN TrimRight(SubSeq(s, 1, Len(s) - 1)) ELSE s

Trim(s) == TrimRight(TrimLeft(s))

-----------------------------------------------------------------------------
(* Grade calculation functions *)

\* As getGPA, the first band open at 85.
getGPAOpenAt85(percentage) ==
    IF percentage > 85 THEN 400
    ELSE IF percentage >= 75 THEN 375
    ELSE IF percentage >= 70 THEN 350
    ELSE IF percentage >= 65 THEN 300
    ELSE IF percentage >= 60 THEN 250
    ELSE IF percentage >= 50 THEN 200
    ELSE 0

getGPA(percentage) ==
    IF percentage >= 85 THEN 400
    ELSE IF percentage >= 75 THEN 375
    ELSE IF percentage >= 70 THEN 350
    ELSE IF percentage >= 65 THEN 300
    ELSE IF percentage >= 60 THEN 250
    ELSE IF percentage >= 50 THEN 200
    ELSE 0

getGrade(percentage) ==
    IF percentage >= 85 THEN "A+"
    ELSE IF percentage >= 75 THEN "A"
    ELSE IF percentage >= 70 THEN "B+"
    ELSE IF percentage >= 65 THEN "B"
    ELSE IF percentage >= 60 THEN "C+"
    ELSE IF percentage >= 50 THEN "C"
    ELSE "F"

-----------------------------------------------------------------------------
(* Mongoose schema: casting, setters, defaults, validation *)

\* An _id the driver can cast to an ObjectId.
IsObjectId(id) == id > 0

\* SchemaBoolean cast: true and false are kept, null is kept, anything else
\* is a CastError.
BooleanCastable(v) == v \in {JsTrue, JsFalse, Null}

\* courseTag: { type: String, trim: true }: the setter trims a string; null
\* stays null.
courseTagSetter(v) == IF v = NullTag THEN NullTag ELSE Trim(v)

\* The value a $set of path f to v stores.
CastUpdateVal(f, v) == IF f = "courseTag" THEN courseTagSetter(v) ELSE v

UpdateCastable(f, v) == IF f \in FlagFields THEN BooleanCastable(v) ELSE TRUE

\* noteSchema, applied by new Note({title, content, courseTag, userId}): a
\* default replaces an undefined path only.
noteSchema(doc, id, createdAt) ==
    [_id        |-> id,
     title      |-> doc.title,
     content    |-> doc.content,
     courseTag  |-> IF doc.courseTag = UndefinedTag THEN General
                    ELSE courseTagSetter(doc.courseTag),
     isPinned   |-> JsFalse,
     isArchived |-> JsFalse,
     isDeleted  |-> JsFalse,
     userId     |-> doc.userId,
     createdAt  |-> createdAt]

\* required: true on a String path rejects undefined, null and "".
RequiredString(v) == v \notin {Undefined, Null, ""}

NoteValid(n) ==
    RequiredString(n.title) /\ RequiredString(n.content) /\ RequiredString(n.userId)

-----------------------------------------------------------------------------
(* Mongoose queries on the Note collection *)

\* As NoteFindOneAndUpdate, with the filter {_id: id}: ownership not checked.
NoteFindOneAndUpdateAnyOwner(coll, id, userId, set) ==
    IF \/ ~IsObjectId(id)
       \/ \E f \in DOMAIN set : ~UpdateCastable(f, set[f])
    THEN [threw |-> TRUE, docs |-> {}, coll |-> coll]
    ELSE LET found == {n \in coll : n._id = id}
             upd(n) == [f \in DOMAIN n |->
                          IF f \in DOMAIN set THEN CastUpdateVal(f, set[f]) ELSE n[f]]
         IN  [threw |-> FALSE,
              docs  |-> {upd(n) : n \in found},
              coll  |-> (coll \ found) \cup {upd(n) : n \in found}]

\* Note.findOneAndUpdate({_id: id, userId}, {$set: set}, {new: true}) with
\* set a function from some of NoteFields to values.  The result says
\* whether the call threw (a CastError), the document found (as updated) if
\* any, and the collection afterwards.
NoteFindOneAndUpdate(coll, id, userId, set) ==
    IF \/ ~IsObjectId(id)
       \/ \E f \in DOMAIN set : ~UpdateCastable(f, set[f])
    THEN [threw |-> TRUE, docs |-> {}, coll |-> coll]
    ELSE LET found == {n \in coll : n._id = id /\ n.userId = userId}
             upd(n) == [f \in DOMAIN n |->
                          IF f \in DOMAIN set THEN CastUpdateVal(f, set[f]) ELSE n[f]]
         IN  [threw |-> FALSE,
              docs  |-> {upd(n) : n \in found},
              coll  |-> (coll \ found) \cup {upd(n) : n \in found}]

\* As NoteFindOneAndDelete, deleting only a note whose isDeleted is true.
NoteFindOneAndDeleteTrashed(coll, id, userId) ==
    IF ~IsObjectId(id)
    THEN [threw |-> TRUE, docs |-> {}, coll |-> coll]
    ELSE LET found == {n \in coll : n._id = id /\ n.userId = userId
                                     /\ n.isDeleted = JsTrue}
         IN  [threw |-> FALSE, docs |-> found, coll |-> coll \ found]

\* Note.findOneAndDelete({_id: id, userId}).
NoteFindOneAndDelete(coll, id, userId) ==
    IF ~IsObjectId(id)
    THEN [threw |-> TRUE, docs |-> {}, coll |-> coll]
    ELSE LET found == {n \in coll : n._id = id /\ n.userId = userId}
         IN  [threw |-> FALSE, docs |-> found, coll |-> coll \ found]

-----------------------------------------------------------------------------
(* Note.find(filter).sort({ isPinned: -1, createdAt: -1 }) *)

\* A filter is a function from some paths to the value a document must have
\* there; MongoDB's equality match is exact (false does not match null).
Matches(n, filter) == \A f \in DOMAIN filter : n[f] = filter[f]

NoteFind(coll, filter) == {n \in coll : Matches(n, filter)}

\* MongoDB's comparison order of the values a sort path holds: null sorts
\* before every boolean, false before true; a date by its time.
SortKey(path, v) ==
    IF path = "createdAt" THEN v
    ELSE IF v = Null THEN 0 ELSE IF v = JsFalse THEN 1 ELSE 2

notesSort == <<[path |-> "isPinned", dir |-> -1], [path |-> "createdAt", dir |-> -1]>>

\* a may come before b under the sort specification from its k-th key on.
RECURSIVE MayPrecede(_, _, _, _)
MayPrecede(sort, k, a, b) ==
    IF k > Len(sort) THEN TRUE
    ELSE LET ka == sort[k].dir * SortKey(sort[k].path, a[sort[k].path])
             kb == sort[k].dir * SortKey(sort[k].path, b[sort[k].path])
         IN  IF ka < kb THEN TRUE
             ELSE IF ka > kb THEN FALSE
             ELSE MayPrecede(sort, k + 1, a, b)

\* Every order the cursor may return the documents in: documents that tie on
\* every sort key come in either order.
Sorted(docs, sort) ==
    {s \in [1..Cardinality(docs) -> docs] :
        /\ \A i, j \in 1..Cardinality(docs) : i # j => s[i] # s[j]
        /\ \A i, j \in 1..Cardinality(docs) : i < j => MayPrecede(sort, 1, s[i], s[j])}

\* Note.distinct("courseTag", filter).
NoteDistinctTags(coll, filter) == {n.courseTag : n \in NoteFind(coll, filter)}

-----------------------------------------------------------------------------
(* Authentication middleware *)

\* supabase.auth.getUser(token): the sessions Supabase knows.
Sessions == [tok1 |-> "u1", tok2 |-> "u2"]

getUser(token) ==
    IF token \in DOMAIN Sessions
    THEN [user |-> Sessions[token], error |-> FALSE]
    ELSE [user |-> Null, error |-> TRUE]

\* !v for the strings a header or a cookie can hold.
Falsy(v) == v \in {Undefined, Null, ""}

\* req.headers.authorization?.split(" ")[1]; the header is given as the
\* sequence of its space-separated parts, <<>> when the header is absent.
BearerToken(r) == IF Len(r.authorization) >= 2 THEN r.authorization[2] ELSE Undefined

\* As CookieToken, with a cookie parser in front of the middleware.
CookieTokenParsed(r) == r.cookie

\* req.cookies?.supabaseAuthToken.  No middleware of the application parses
\* the Cookie header, so req.cookies is undefined whatever the request sends.
CookieToken(r) == Undefined

\* The outcome of authMiddleware: whether next() was called, the response it
\* sent otherwise, and req.user.id as the route handler will read it
\* (Undefined when req.user was never set).
authMiddleware(r) ==
    IF Falsy(BearerToken(r))
    THEN IF ~Falsy(CookieToken(r))
         THEN [next |-> TRUE, status |-> 0, message |-> "", user |-> Undefined]
         ELSE [next |-> FALSE, status |-> 401, message |-> "No token provided.",
               user |-> Undefined]
    ELSE LET g == getUser(BearerToken(r))
         IN  IF g.error \/ g.user = Null
             THEN [next |-> FALSE, status |-> 401, message |-> "Invalid token.",
                   user |-> Undefined]
             ELSE [next |-> TRUE, status |-> 0, message |-> "", user |-> g.user]

-----------------------------------------------------------------------------
(* Responses *)

\* status 0: the handler's promise rejected before it sent a response.
Response(status, message, body) == [status |-> status, message |-> message, body |-> body]

Rejected == Response(0, "", <<>>)

\* What a route handler does: the response and the collection afterwards.
Outcome(response, coll) == [res |-> response, coll |-> coll]

\* A promise an async handler awaits rejects outside any try block.  Express 4
\* does not observe the handler's promise and nothing is sent; Express 5
\* passes the rejection to its default error handler, which answers 500.  The
\* source does not say which Express it runs on.
Unhandled(coll) ==
    {Outcome(Rejected, coll), Outcome(Response(500, "Internal Server Error", <<>>), coll)}

-----------------------------------------------------------------------------
(* Note routes.  Each takes the request, req.user.id as left by              *)
(* authMiddleware, and the collection, and gives the set of outcomes.       *)

\* req.user.id throws a TypeError when req.user is undefined.
NoUser(user) == user = Undefined

\* As notesFilter, the archive view not excluding deleted notes.
notesFilterArchiveKeepsDeleted(query, userId) ==
    LET base == [userId |-> userId]
    IN  IF query.view = "deleted" THEN base @@ [isDeleted |-> JsTrue]
        ELSE IF query.view = "archive" THEN base @@ [isArchived |-> JsTrue]
        ELSE IF query.courseTag \notin {UndefinedTag, <<>>}
             THEN base @@ [courseTag |-> courseTagSetter(query.courseTag),
                           isArchived |-> JsFalse, isDeleted |-> JsFalse]
        ELSE base @@ [isArchived |-> JsFalse, isDeleted |-> JsFalse]

\* GET /api/notes: the query's view and courseTag select the filter.
notesFilter(query, userId) ==
    LET base == [userId |-> userId]
    IN  IF query.view = "deleted" THEN base @@ [isDeleted |-> JsTrue]
        ELSE IF query.view = "archive"
             THEN base @@ [isArchived |-> JsTrue, isDeleted |-> JsFalse]
        ELSE IF query.courseTag \notin {UndefinedTag, <<>>}
             THEN base @@ [courseTag |-> courseTagSetter(query.courseTag),
                           isArchived |-> JsFalse, isDeleted |-> JsFalse]
        ELSE base @@ [isArchived |-> JsFalse, isDeleted |-> JsFalse]

getNotes(r, user, coll) ==
    IF NoUser(user) THEN Unhandled(coll)
    ELSE {Outcome(Response(200, "", s), coll) :
            s \in Sorted(NoteFind(coll, notesFilter(r.query, user)), notesSort)}

\* POST /api/notes
postNotes(r, user, coll, id, createdAt) ==
    IF NoUser(user) THEN Unhandled(coll)
    ELSE LET newNote == noteSchema([title     |-> r.body.title,
                                    content   |-> r.body.content,
                                    courseTag |-> r.body.courseTag,
                                    userId    |-> user], id, createdAt)
         IN  IF ~NoteValid(newNote) THEN Unhandled(coll)
             ELSE {Outcome(Response(201, "", <<newNote>>), coll \cup {newNote})}

\* As updateFields, with the content also written to the title.
updateFieldsContentToTitle(body) ==
    [f \in {g \in NoteFields : ~IsUndefined(IF g = "title" THEN "content" ELSE g,
                                            body[IF g = "title" THEN "content" ELSE g])}
       |-> body[IF f = "title" THEN "content" ELSE f]]

\* PUT /api/notes/:id: the update object holds the fields of the body that
\* are not undefined.
updateFields(body) ==
    [f \in {g \in NoteFields : ~IsUndefined(g, body[g])} |-> body[f]]

\* As putNote, the fields that can be cast being written before the one
\* that cannot makes the update throw.
putNoteFieldwise(r, user, coll) ==
    IF NoUser(user) THEN {Outcome(Response(400, "Update error", <<>>), coll)}
    ELSE LET set == updateFields(r.body)
             castable == [f \in {g \in DOMAIN set : UpdateCastable(g, set[g])} |-> set[f]]
             u == NoteFindOneAndUpdate(coll, r.id, user, castable)
         IN  IF u.threw \/ DOMAIN castable # DOMAIN set
             THEN {Outcome(Response(400, "Update error", <<>>), u.coll)}
             ELSE IF u.docs = {}
                  THEN {Outcome(Response(404, "Note not found or access denied", <<>>),
                                u.coll)}
             ELSE {Outcome(Response(200, "", <<d>>), u.coll) : d \in u.docs}

\* As putNote, an update that sets isDeleted to false also clearing
\* isArchived.
putNoteRestoreUnarchives(r, user, coll) ==
    IF NoUser(user) THEN {Outcome(Response(400, "Update error", <<>>), coll)}
    ELSE LET set == IF r.body.isDeleted = JsFalse
                    THEN [isArchived |-> JsFalse] @@ updateFields(r.body)
                    ELSE updateFields(r.body)
             u == NoteFindOneAndUpdate(coll, r.id, user, set)
         IN  IF u.threw THEN {Outcome(Response(400, "Update error", <<>>), coll)}
             ELSE IF u.docs = {}
                  THEN {Outcome(Response(404, "Note not found or access denied", <<>>),
                                u.coll)}
             ELSE {Outcome(Response(200, "", <<d>>), u.coll) : d \in u.docs}

putNote(r, user, coll) ==
    IF NoUser(user) THEN {Outcome(Response(400, "Update error", <<>>), coll)}
    ELSE LET u == NoteFindOneAndUpdate(coll, r.id, user, updateFields(r.body))
         IN  IF u.threw THEN {Outcome(Response(400, "Update error", <<>>), coll)}
             ELSE IF u.docs = {}
                  THEN {Outcome(Response(404, "Note not found or access denied", <<>>),
                                u.coll)}
             ELSE {Outcome(Response(200, "", <<d>>), u.coll) : d \in u.docs}

\* As deleteNote, a note that is in the trash already not being found.
deleteNoteNotTrashed(r, user, coll) ==
    IF NoUser(user) THEN {Outcome(Response(500, "Deletion error", <<>>), coll)}
    ELSE LET u == NoteFindOneAndUpdate({n \in coll : n.isDeleted # JsTrue}, r.id, user,
                                       [isDeleted |-> JsTrue])
         IN  IF u.threw THEN {Outcome(Response(500, "Deletion error", <<>>), coll)}
             ELSE IF u.docs = {}
                  THEN {Outcome(Response(404, "Note not found or access denied", <<>>),
                                coll)}
             ELSE {Outcome(Response(204, "", <<>>),
                           u.coll \cup {n \in coll : n.isDeleted = JsTrue})}

\* DELETE /api/notes/:id
deleteNote(r, user, coll) ==
    IF NoUser(user) THEN {Outcome(Response(500, "Deletion error", <<>>), coll)}
    ELSE LET u == NoteFindOneAndUpdate(coll, r.id, user, [isDeleted |-> JsTrue])
         IN  IF u.threw THEN {Outcome(Response(500, "Deletion error", <<>>), coll)}
             ELSE IF u.docs = {}
                  THEN {Outcome(Response(404, "Note not found or access denied", <<>>),
                                u.coll)}
             ELSE {Outcome(Response(204, "", <<>>), u.coll)}

\* DELETE /api/notes/:id/permanent
deleteNotePermanent(r, user, coll) ==
    IF NoUser(user)
    THEN {Outcome(Response(500, "Permanent deletion error", <<>>), coll)}
    ELSE LET d == NoteFindOneAndDelete(coll, r.id, user)
         IN  IF d.threw
             THEN {Outcome(Response(500, "Permanent deletion error", <<>>), coll)}
             ELSE IF d.docs = {}
                  THEN {Outcome(Response(404, "Note not found or access denied", <<>>),
                                d.coll)}
             ELSE {Outcome(Response(204, "", <<>>), d.coll)}

\* As getTags, the filter not excluding archived notes.
getTagsOfArchived(r, user, coll) ==
    IF NoUser(user) THEN {Outcome(Response(500, "Tag fetch error", <<>>), coll)}
    ELSE LET tags == NoteDistinctTags(coll, [userId |-> user, isDeleted |-> JsFalse])
         IN  {Outcome(Response(200, "", s), coll) :
                s \in Sorted({t \in tags : t \notin {NullTag, <<>>}}, <<>>)}

\* GET /api/tags: tags.filter(Boolean) drops null and "".
getTags(r, user, coll) ==
    IF NoUser(user) THEN {Outcome(Response(500, "Tag fetch error", <<>>), coll)}
    ELSE LET tags == NoteDistinctTags(coll, [userId |-> user, isDeleted |-> JsFalse,
                                             isArchived |-> JsFalse])
         IN  {Outcome(Response(200, "", s), coll) :
                s \in Sorted({t \in tags : t \notin {NullTag, <<>>}}, <<>>)}

-----------------------------------------------------------------------------
(* Grade record routes.  The body of POST /api/grades names the fields it   *)
(* holds in "present"; a field it does not hold is undefined.               *)

Field(body, f) == f \in body.present

\* gradeRecordSchema, applied by new GradeRecord({...}).
gradeRecordSchema(doc, id, createdAt) ==
    [_id         |-> id,
     userId      |-> doc.userId,
     course      |-> doc.course,
     score       |-> doc.score,
     creditHours |-> doc.creditHours,
     grade       |-> doc.grade,
     gpa         |-> doc.gpa,
     createdAt   |-> createdAt]

\* userId, course, score and creditHours are required.
GradeRecordValid(body) == {"course", "score", "creditHours"} \subseteq body.present

\* As postGrades, a score above 100 stored as 100.
postGradesCapped(r, user, coll, id, createdAt) ==
    IF NoUser(user) THEN Unhandled(coll)
    ELSE LET grade == IF Field(r.body, "score") THEN getGrade(r.body.score) ELSE "F"
             gpa == IF Field(r.body, "score") THEN getGPA(r.body.score) ELSE 0
             newRecord == gradeRecordSchema([userId      |-> user,
                                             course      |-> r.body.course,
                                             score       |-> IF r.body.score > 100 THEN 100
                                                             ELSE r.body.score,
                                             creditHours |-> r.body.creditHours,
                                             grade       |-> grade,
                                             gpa         |-> gpa], id, createdAt)
         IN  IF ~GradeRecordValid(r.body)
             THEN {Outcome(Response(500, "Error saving grade record", <<>>), coll)}
             ELSE {Outcome(Response(201, "", <<newRecord>>), coll \cup {newRecord})}

\* POST /api/grades
postGrades(r, user, coll, id, createdAt) ==
    IF NoUser(user) THEN Unhandled(coll)
    ELSE LET grade == IF Field(r.body, "score") THEN getGrade(r.body.score) ELSE "F"
             gpa == IF Field(r.body, "score") THEN getGPA(r.body.score) ELSE 0
             newRecord == gradeRecordSchema([userId      |-> user,
                                             course      |-> r.body.course,
                                             score       |-> r.body.score,
                                             creditHours |-> r.body.creditHours,
                                             grade       |-> grade,
                                             gpa         |-> gpa], id, createdAt)
         IN  IF ~GradeRecordValid(r.body)
             THEN {Outcome(Response(500, "Error saving grade record", <<>>), coll)}
             ELSE {Outcome(Response(201, "", <<newRecord>>), coll \cup {newRecord})}

\* As GradeFind, with an empty filter: every user's records.
GradeFindAnyOwner(coll, userId) == coll

\* GradeRecord.find({ userId })
GradeFind(coll, userId) == {g \in coll : g.userId = userId}

\* GET /api/grades
getGrades(r, user, coll) ==
    IF NoUser(user) THEN Unhandled(coll)
    ELSE {Outcome(Response(200, "", s), coll) : s \in Sorted(GradeFind(coll, user), <<>>)}

\* records.reduce(...): the sums of gpa * creditHours and of creditHours.
RECURSIVE Reduce(_)
Reduce(records) ==
    IF records = {} THEN [totalGPA |-> 0, totalCredit |-> 0]
    ELSE LET g == CHOOSE x \in records : TRUE
             acc == Reduce(records \ {g})
         IN  [totalGPA    |-> acc.totalGPA + g.gpa * g.creditHours,
              totalCredit |-> acc.totalCredit + g.creditHours]

\* (num / den).toFixed(2), in hundredths when num is: the nearest integer to
\* num / den, a half rounded away from zero.
Abs(x) == IF x < 0 THEN -x ELSE x

ToFixed(num, den) ==
    LET q == (2 * Abs(num) + Abs(den)) \div (2 * Abs(den))
    IN  IF (num < 0) # (den < 0) THEN -q ELSE q

JsNumber(hundredths) == [type |-> "number", hundredths |-> hundredths]
JsString(hundredths) == [type |-> "string", hundredths |-> hundredths]

\* GET /api/gpa
getGpa(r, user, coll) ==
    IF NoUser(user) THEN Unhandled(coll)
    ELSE LET records == GradeFind(coll, user)
             sums == Reduce(records)
         IN  IF Cardinality(records) = 0
             THEN {Outcome(Response(200, "", <<[gpa |-> JsNumber(0), creditTotal |-> 0]>>),
                           coll)}
             ELSE {Outcome(Response(200, "",
                       <<[gpa |-> IF sums.totalCredit # 0
                                  THEN JsString(ToFixed(sums.totalGPA, sums.totalCredit))
                                  ELSE JsString(0),
                          creditTotal |-> sums.totalCredit]>>), coll)}

\* GradeRecord.findOneAndDelete({ _id: id, userId })
GradeFindOneAndDelete(coll, id, userId) ==
    IF ~IsObjectId(id)
    THEN [threw |-> TRUE, docs |-> {}, coll |-> coll]
    ELSE LET found == {g \in coll : g._id = id /\ g.userId = userId}
         IN  [threw |-> FALSE, docs |-> found, coll |-> coll \ found]

\* DELETE /api/grades/:id
deleteGrade(r, user, coll) ==
    IF NoUser(user) THEN Unhandled(coll)
    ELSE LET d == GradeFindOneAndDelete(coll, r.id, user)
         IN  IF d.threw THEN {Outcome(Response(500, "Error deleting record", <<>>), coll)}
             ELSE IF d.docs = {}
                  THEN {Outcome(Response(404, "Record not found or access denied", <<>>),
                                d.coll)}
             ELSE {Outcome(Response(204, "", <<>>), d.coll)}

-----------------------------------------------------------------------------
(* Requests *)

OpGetNotes == "GET /api/notes"
OpPostNotes == "POST /api/notes"
OpPutNote == "PUT /api/notes/:id"
OpDeleteNote == "DELETE /api/notes/:id"
OpDeleteNotePermanent == "DELETE /api/notes/:id/permanent"
OpGetTags == "GET /api/tags"
OpPostGrades == "POST /api/grades"
OpGetGrades == "GET /api/grades"
OpGetGpa == "GET /api/gpa"
OpDeleteGrade == "DELETE /api/grades/:id"

NoQuery == [view |-> Undefined, courseTag |-> UndefinedTag]

NoBody == [title |-> Undefined, content |-> Undefined, courseTag |-> UndefinedTag,
           isPinned |-> Undefined, isArchived |-> Undefined, isDeleted |-> Undefined]

\* fault: the Mongoose call the route awaits rejects for a reason of the
\* store's (MongoDB is unreachable, the command times out).
Request(op, auth, id, query, body) ==
    [op |-> op, authorization |-> auth.authorization, cookie |-> auth.cookie,
     id |-> id, query |-> query, body |-> body, fault |-> FALSE]

Faulted(r) == [r EXCEPT !.fault = TRUE]

\* What the caller gets when the call a route awaits rejects: the answer of
\* the route's catch block, the store left as it was; GET and POST
\* /api/notes have no try block.
Catch(op, coll) ==
    CASE op = OpGetNotes -> Unhandled(coll)
      [] op = OpPostNotes -> Unhandled(coll)
      [] op = OpPutNote -> {Outcome(Response(400, "Update error", <<>>), coll)}
      [] op = OpDeleteNote -> {Outcome(Response(500, "Deletion error", <<>>), coll)}
      [] op = OpDeleteNotePermanent ->
             {Outcome(Response(500, "Permanent deletion error", <<>>), coll)}
      [] op = OpGetTags -> {Outcome(Response(500, "Tag fetch error", <<>>), coll)}
      [] op = OpPostGrades -> {Outcome(Response(500, "Error saving grade record", <<>>), coll)}
      [] op = OpGetGrades ->
             {Outcome(Response(500, "Error fetching grade records", <<>>), coll)}
      [] op = OpGetGpa -> {Outcome(Response(500, "Error calculating GPA", <<>>), coll)}
      [] op = OpDeleteGrade -> {Outcome(Response(500, "Error deleting record", <<>>), coll)}

\* app.use("/api", authMiddleware): the route handler runs only when the
\* middleware calls next(); otherwise the middleware's response is the
\* outcome and the collection is not touched.
Route(r, coll, handled) ==
    IF ~authMiddleware(r).next
    THEN {Outcome(Response(authMiddleware(r).status, authMiddleware(r).message, <<>>),
                  coll)}
    ELSE IF r.fault THEN Catch(r.op, coll)
    ELSE handled

Bearer(token) == [authorization |-> <<"Bearer", token>>, cookie |-> Undefined]

\* The routes on the Note collection that need nothing but the request.
noteRoutes(r, coll) ==
    Route(r, coll,
          CASE r.op = OpGetNotes -> getNotes(r, authMiddleware(r).user, coll)
            [] r.op = OpPutNote -> putNote(r, authMiddleware(r).user, coll)
            [] r.op = OpDeleteNote -> deleteNote(r, authMiddleware(r).user, coll)
            [] r.op = OpDeleteNotePermanent ->
                   deleteNotePermanent(r, authMiddleware(r).user, coll)
            [] r.op = OpGetTags -> getTags(r, authMiddleware(r).user, coll))

\* The routes on the GradeRecord collection that need nothing but the request.
gradeRoutes(r, coll) ==
    Route(r, coll,
          CASE r.op = OpGetGrades -> getGrades(r, authMiddleware(r).user, coll)
            [] r.op = OpGetGpa -> getGpa(r, authMiddleware(r).user, coll)
            [] r.op = OpDeleteGrade -> deleteGrade(r, authMiddleware(r).user, coll))

-----------------------------------------------------------------------------
(* The state after start-up, and one action per route.  U is the universe   *)
(* of inputs the requests are drawn from.                                   *)

Init ==
    /\ notes = {}
    /\ grades = {}
    /\ clock = 0
    /\ noteSeq = 0
    /\ gradeSeq = 0
    /\ req = Request("none", Bearer(Undefined), 0, NoQuery, NoBody)
    /\ res = Rejected
    /\ inflight = [start |-> {}, ops |-> <<>>]
    /\ users = <<>>
    /\ registering = <<>>

GetNotes(U) ==
    \E a \in U.auths, q \in U.queries :
        LET r == Request(OpGetNotes, a, 0, q, NoBody)
        IN  \E o \in noteRoutes(r, notes) :
                /\ req' = r
                /\ res' = o.res
                /\ notes' = o.coll
                /\ UNCHANGED <<users, registering, grades, clock, noteSeq, gradeSeq, inflight>>

\* As PostNotes, the new note taking the smallest _id no stored note has.
PostNotesReusingIds(U) ==
    /\ noteSeq < U.maxNotes
    /\ \E a \in U.auths, b \in U.creates, tick \in U.ticks :
        LET r == Request(OpPostNotes, a, 0, NoQuery, b)
            free == CHOOSE i \in 1..(noteSeq + 1) :
                        /\ \A n \in notes : n._id # i
                        /\ \A j \in 1..(i - 1) : \E n \in notes : n._id = j
        IN  \E o \in Route(r, notes, postNotes(r, authMiddleware(r).user, notes,
                                               free, clock + tick)) :
                /\ req' = r
                /\ res' = o.res
                /\ notes' = o.coll
                /\ noteSeq' = IF o.coll = notes THEN noteSeq ELSE noteSeq + 1
                /\ clock' = IF o.coll = notes THEN clock ELSE clock + tick
                /\ UNCHANGED <<users, registering, grades, gradeSeq, inflight>>

PostNotes(U) ==
    /\ noteSeq < U.maxNotes
    /\ \E a \in U.auths, b \in U.creates, tick \in U.ticks :
        LET r == Request(OpPostNotes, a, 0, NoQuery, b)
        IN  \E o \in Route(r, notes, postNotes(r, authMiddleware(r).user, notes,
                                               noteSeq + 1, clock + tick)) :
                /\ req' = r
                /\ res' = o.res
                /\ notes' = o.coll
                /\ noteSeq' = IF o.coll = notes THEN noteSeq ELSE noteSeq + 1
                /\ clock' = IF o.coll = notes THEN clock ELSE clock + tick
                /\ UNCHANGED <<users, registering, grades, gradeSeq, inflight>>

PutNote(U) ==
    \E a \in U.auths, id \in 0..U.maxNotes, b \in U.updates :
        LET r == Request(OpPutNote, a, id, NoQuery, b)
        IN  \E o \in noteRoutes(r, notes) :
                /\ req' = r
                /\ res' = o.res
                /\ notes' = o.coll
                /\ UNCHANGED <<users, registering, grades, clock, noteSeq, gradeSeq, inflight>>

DeleteNote(U) ==
    \E a \in U.auths, id \in 0..U.maxNotes :
        LET r == Request(OpDeleteNote, a, id, NoQuery, NoBody)
        IN  \E o \in noteRoutes(r, notes) :
                /\ req' = r
                /\ res' = o.res
                /\ notes' = o.coll
                /\ UNCHANGED <<users, registering, grades, clock, noteSeq, gradeSeq, inflight>>

DeleteNotePermanent(U) ==
    \E a \in U.auths, id \in 0..U.maxNotes :
        LET r == Request(OpDeleteNotePermanent, a, id, NoQuery, NoBody)
        IN  \E o \in noteRoutes(r, notes) :
                /\ req' = r
                /\ res' = o.res
                /\ notes' = o.coll
                /\ UNCHANGED <<users, registering, grades, clock, noteSeq, gradeSeq, inflight>>

GetTags(U) ==
    \E a \in U.auths :
        LET r == Request(OpGetTags, a, 0, NoQuery, NoBody)
        IN  \E o \in noteRoutes(r, notes) :
                /\ req' = r
                /\ res' = o.res
                /\ notes' = o.coll
                /\ UNCHANGED <<users, registering, grades, clock, noteSeq, gradeSeq, inflight>>

PostGrades(U) ==
    /\ gradeSeq < U.maxGrades
    /\ \E a \in U.auths, b \in U.gradeInputs, tick \in U.ticks :
        LET r == Request(OpPostGrades, a, 0, NoQuery, b)
        IN  \E o \in Route(r, grades, postGrades(r, authMiddleware(r).user, grades,
                                                 gradeSeq + 1, clock + tick)) :
                /\ req' = r
                /\ res' = o.res
                /\ grades' = o.coll
                /\ gradeSeq' = IF o.coll = grades THEN gradeSeq ELSE gradeSeq + 1
                /\ clock' = IF o.coll = grades THEN clock ELSE clock + tick
                /\ UNCHANGED <<users, registering, notes, noteSeq, inflight>>

GetGrades(U) ==
    \E a \in U.auths :
        LET r == Request(OpGetGrades, a, 0, NoQuery, NoBody)
        IN  \E o \in gradeRoutes(r, grades) :
                /\ req' = r
                /\ res' = o.res
                /\ grades' = o.coll
                /\ UNCHANGED <<users, registering, notes, clock, noteSeq, gradeSeq, inflight>>

GetGpa(U) ==
    \E a \in U.auths :
        LET r == Request(OpGetGpa, a, 0, NoQuery, NoBody)
        IN  \E o \in gradeRoutes(r, grades) :
                /\ req' = r
                /\ res' = o.res
                /\ grades' = o.coll
                /\ UNCHANGED <<users, registering, notes, clock, noteSeq, gradeSeq, inflight>>

DeleteGrade(U) ==
    \E a \in U.auths, id \in 0..U.maxGrades :
        LET r == Request(OpDeleteGrade, a, id, NoQuery, NoBody)
        IN  \E o \in gradeRoutes(r, grades) :
                /\ req' = r
                /\ res' = o.res
                /\ grades' = o.coll
                /\ UNCHANGED <<users, registering, notes, clock, noteSeq, gradeSeq, inflight>>

\* A request on any route during which the store fails.
StorageFault(U) ==
    \E op \in U.ops, a \in U.auths, id \in 0..U.maxNotes :
        LET r == Faulted(Request(op, a, id, NoQuery, NoBody))
        IN  \E o \in Route(r, notes, {}) :
                /\ req' = r
                /\ res' = o.res
                /\ notes' = o.coll
                /\ UNCHANGED <<users, registering, grades, clock, noteSeq, gradeSeq, inflight>>

-----------------------------------------------------------------------------
(* Requests that overlap in time.  A handler runs without interruption up   *)
(* to its await of the Mongoose call, and MongoDB applies the command of    *)
(* each call atomically, at some later time and in any order; the handler   *)
(* then goes on and answers.  A request in flight is awaiting (at = 0) or   *)
(* was applied as the at-th of the requests it overlaps with.               *)

\* A request on a note arrives and passes authMiddleware; its handler sends
\* its findOneAndUpdate or findOneAndDelete and awaits it.
Receive(U) ==
    /\ Len(inflight.ops) < MaxInFlight
    /\ \E op \in {OpPutNote, OpDeleteNote, OpDeleteNotePermanent}, a \in U.auths,
          id \in 1..U.maxNotes, b \in U.updates :
        LET r == Request(op, a, id, NoQuery, IF op = OpPutNote THEN b ELSE NoBody)
        IN  /\ authMiddleware(r).next
            /\ inflight' = [start |-> IF inflight.ops = <<>> THEN notes ELSE inflight.start,
                            ops   |-> Append(inflight.ops, [r |-> r, at |-> 0])]
            /\ UNCHANGED <<users, registering, notes, grades, clock, noteSeq, gradeSeq, req, res>>

Applied(ops) == {k \in DOMAIN ops : ops[k].at > 0}

\* As Apply, the update written being computed from the note as it was
\* when the first of the overlapping requests arrived.
ApplyStale ==
    \E k \in DOMAIN inflight.ops :
        /\ inflight.ops[k].at = 0
        /\ LET r == inflight.ops[k].r
               stale == {n \in inflight.start : \E m \in notes : m._id = n._id}
                        \cup {m \in notes : \A n \in inflight.start : n._id # m._id}
           IN  \E o \in noteRoutes(r, stale) :
                   /\ req' = r
                   /\ res' = o.res
                   /\ notes' = {n \in o.coll : n._id = r.id}
                                \cup {m \in notes : m._id # r.id}
        /\ inflight' = [inflight EXCEPT
                          !.ops[k].at = Cardinality(Applied(inflight.ops)) + 1]
        /\ UNCHANGED <<users, registering, grades, clock, noteSeq, gradeSeq>>

\* MongoDB applies the command of a request in flight to the collection as
\* it is now; the handler goes on from its await and answers.
Apply ==
    \E k \in DOMAIN inflight.ops :
        /\ inflight.ops[k].at = 0
        /\ LET r == inflight.ops[k].r
           IN  \E o \in noteRoutes(r, notes) :
                   /\ req' = r
                   /\ res' = o.res
                   /\ notes' = o.coll
        /\ inflight' = [inflight EXCEPT
                          !.ops[k].at = Cardinality(Applied(inflight.ops)) + 1]
        /\ UNCHANGED <<users, registering, grades, clock, noteSeq, gradeSeq>>

\* Every request in flight was answered: none overlaps with the next one.
Settle ==
    /\ inflight.ops # <<>>
    /\ Applied(inflight.ops) = DOMAIN inflight.ops
    /\ inflight' = [start |-> {}, ops |-> <<>>]
    /\ UNCHANGED <<users, registering, notes, grades, clock, noteSeq, gradeSeq, req, res>>

-----------------------------------------------------------------------------
(* POST /api/register, mounted before authMiddleware.  The handler awaits   *)
(* User.findOne and then newUser.save(); other requests run in between.     *)

OpRegister == "POST /api/register"

NoAuth == [authorization |-> <<>>, cookie |-> Undefined]

\* userSchema, applied by new User({ userId, email }).
userSchema(doc, createdAt) ==
    [userId |-> doc.userId, email |-> doc.email, createdAt |-> createdAt]

\* userId and email are required.
UserValid(u) == RequiredString(u.userId) /\ RequiredString(u.email)

\* User.findOne({ userId })
UserFindOne(coll, userId) == {coll[i] : i \in {j \in DOMAIN coll : coll[j].userId = userId}}

\* The insert that newUser.save() sends: userId is declared unique, and the
\* unique index rejects a second document with the same userId (E11000).
UserInsert(coll, u) ==
    IF UserFindOne(coll, u.userId) # {}
    THEN [threw |-> TRUE, coll |-> coll]
    ELSE [threw |-> FALSE, coll |-> Append(coll, u)]

\* A register request arrives and its User.findOne is answered: with a user,
\* and the handler answers 400; with none, and the handler goes on to await
\* newUser.save().
RegisterFind(U) ==
    \E b \in U.registrations :
        LET r == Request(OpRegister, NoAuth, 0, NoQuery, b)
        IN  IF UserFindOne(users, b.userId) # {}
            THEN /\ req' = r
                 /\ res' = Response(400, "User already exists", <<>>)
                 /\ UNCHANGED <<users, registering, notes, grades, clock, noteSeq,
                                gradeSeq, inflight>>
            ELSE /\ Len(registering) < U.maxRegistering
                 /\ registering' = Append(registering, r)
                 /\ UNCHANGED <<users, notes, grades, clock, noteSeq, gradeSeq, inflight,
                                req, res>>

\* newUser.save() of a register request comes back: the document was
\* invalid (nothing was sent), or the insert was rejected, and the catch
\* block answers 500; or the document was inserted, and the handler answers
\* 201.
RegisterSave ==
    \E k \in DOMAIN registering :
        LET r == registering[k]
            newUser == userSchema([userId |-> r.body.userId, email |-> r.body.email], clock)
            saved == UserInsert(users, newUser)
        IN  /\ registering' = [i \in 1..(Len(registering) - 1) |->
                                  IF i < k THEN registering[i] ELSE registering[i + 1]]
            /\ req' = r
            /\ IF ~UserValid(newUser) \/ saved.threw
               THEN /\ res' = Response(500, "Error creating user", <<>>)
                    /\ users' = users
               ELSE /\ res' = Response(201, "User created successfully", <<>>)
                    /\ users' = saved.coll
            /\ UNCHANGED <<notes, grades, clock, noteSeq, gradeSeq, inflight>>

-----------------------------------------------------------------------------
(* Inputs *)

Patch(fields) == fields @@ NoBody

Views == {[view |-> v, courseTag |-> UndefinedTag] : v \in {Undefined, "archive", "deleted"}}

NewNotes == {Patch([title |-> "t1", content |-> "c1"])}

-----------------------------------------------------------------------------
(* Note lifecycle: one signed-in user, notes that differ in isArchived and  *)
(* isDeleted, which an update may set to true, false, null or a string      *)
(* that is no boolean.                                                      *)

LifecycleUpdates ==
    {NoBody}
    \cup {Patch([x \in {f} |-> v]) :
            f \in {"isArchived", "isDeleted"}, v \in {JsTrue, JsFalse, Null, "maybe"}}
    \cup {Patch([isArchived |-> JsTrue, isDeleted |-> JsFalse])}

LifecycleInputs ==
    [auths    |-> {Bearer("tok1")},
     queries  |-> Views,
     creates  |-> NewNotes,
     updates  |-> LifecycleUpdates,
     ticks    |-> {1},
     maxNotes |-> MaxNotes]

Next ==
    \/ GetNotes(LifecycleInputs)
    \/ PostNotes(LifecycleInputs)
    \/ PutNote(LifecycleInputs)
    \/ DeleteNote(LifecycleInputs)
    \/ DeleteNotePermanent(LifecycleInputs)

Spec == Init /\ [][Next]_vars

-----------------------------------------------------------------------------
(* Ownership: two signed-in users acting on each other's notes.             *)

OwnershipInputs ==
    [auths    |-> {Bearer("tok1"), Bearer("tok2")},
     creates  |-> NewNotes,
     updates  |-> {Patch([title |-> "t2"]), Patch([isDeleted |-> JsTrue])},
     ticks    |-> {1},
     maxNotes |-> MaxNotes]

NextOwnership ==
    \/ PostNotes(OwnershipInputs)
    \/ PutNote(OwnershipInputs)
    \/ DeleteNote(OwnershipInputs)
    \/ DeleteNotePermanent(OwnershipInputs)

SpecOwnership == Init /\ [][NextOwnership]_vars

-----------------------------------------------------------------------------
(* List order: one user, notes that differ in isPinned and in createdAt     *)
(* (two notes may be created within the same millisecond).                  *)

ListInputs ==
    [auths    |-> {Bearer("tok1")},
     queries  |-> Views,
     creates  |-> NewNotes,
     updates  |-> {Patch([isPinned |-> v]) : v \in {JsTrue, JsFalse, Null}}
                  \cup {Patch([isArchived |-> JsTrue])},
     ticks    |-> {0, 1},
     maxNotes |-> MaxNotes]

NextList ==
    \/ GetNotes(ListInputs)
    \/ PostNotes(ListInputs)
    \/ PutNote(ListInputs)

SpecList == Init /\ [][NextList]_vars

-----------------------------------------------------------------------------
(* Text: one user, notes created with and without a courseTag and with      *)
(* flags in the payload, updates of every field.                            *)

TextCreates ==
    {Patch([title |-> "t1", content |-> "c1", courseTag |-> t]) :
        t \in {UndefinedTag, <<>>, <<" ">>, <<"c">>, <<" ", "c">>}}
    \cup {Patch([title |-> "t1", content |-> "c1", isPinned |-> JsTrue,
                 isArchived |-> JsTrue, isDeleted |-> JsTrue]),
          Patch([content |-> "c1"])}

TextUpdates ==
    {NoBody,
     Patch([title |-> "t2"]),
     Patch([content |-> "c2"]),
     Patch([courseTag |-> <<"c", " ">>]),
     Patch([isPinned |-> JsTrue]),
     Patch([isArchived |-> JsTrue, isDeleted |-> JsTrue]),
     Patch([title |-> "t2", content |-> "c2", courseTag |-> <<"c">>, isPinned |-> JsTrue,
            isArchived |-> JsTrue, isDeleted |-> JsTrue]),
     Patch([title |-> "t2", userId |-> "u2", _id |-> 0, createdAt |-> 0])}

TextInputs ==
    [auths    |-> {Bearer("tok1")},
     creates  |-> TextCreates,
     updates  |-> TextUpdates,
     ticks    |-> {1},
     maxNotes |-> MaxTextNotes]

NextText ==
    \/ PostNotes(TextInputs)
    \/ PutNote(TextInputs)

SpecText == Init /\ [][NextText]_vars

-----------------------------------------------------------------------------
(* Grade bands: scores at and next to every threshold, below 0 and above    *)
(* 100.                                                                     *)

GradeBody(course, score, creditHours) ==
    [present |-> {"course", "score", "creditHours"}, course |-> course, score |-> score,
     creditHours |-> creditHours]

BandScores == {-1, 0, 49, 50, 59, 60, 64, 65, 69, 70, 74, 75, 84, 85, 100, 101}

BandInputs ==
    [auths       |-> {Bearer("tok1")},
     gradeInputs |-> {GradeBody("math", x, 3) : x \in BandScores},
     ticks       |-> {1},
     maxGrades   |-> MaxGrades]

NextBands ==
    \/ PostGrades(BandInputs)
    \/ DeleteGrade(BandInputs)

SpecBands == Init /\ [][NextBands]_vars

-----------------------------------------------------------------------------
(* Cumulative GPA: records with positive, zero and negative creditHours.    *)

GpaInputs ==
    [auths       |-> {Bearer("tok1")},
     gradeInputs |-> {GradeBody("math", x, c) : x \in {90, 60, 40}, c \in {-1, 0, 1, 3}},
     ticks       |-> {1},
     maxGrades   |-> MaxGrades]

NextGpa ==
    \/ PostGrades(GpaInputs)
    \/ GetGpa(GpaInputs)
    \/ DeleteGrade(GpaInputs)

SpecGpa == Init /\ [][NextGpa]_vars

-----------------------------------------------------------------------------
(* Authentication: requests with no Authorization header, with a header     *)
(* that holds no token, with a token Supabase rejects and with a valid one, *)
(* each with and without a supabaseAuthToken cookie, on every route.        *)

AuthInputs ==
    [auths       |-> {[authorization |-> h, cookie |-> c] :
                        h \in {<<>>, <<"Bearer">>, <<"Bearer", "bad">>, <<"Bearer", "tok1">>},
                        c \in {Undefined, "ck"}},
     queries     |-> {NoQuery},
     creates     |-> NewNotes,
     updates     |-> {Patch([isDeleted |-> JsTrue])},
     gradeInputs |-> {GradeBody("math", 90, 3)},
     ticks       |-> {0},
     maxNotes    |-> MaxAuthDocs,
     maxGrades   |-> MaxAuthDocs]

NextAuth ==
    \/ GetNotes(AuthInputs)
    \/ PostNotes(AuthInputs)
    \/ PutNote(AuthInputs)
    \/ DeleteNote(AuthInputs)
    \/ DeleteNotePermanent(AuthInputs)
    \/ GetTags(AuthInputs)
    \/ PostGrades(AuthInputs)
    \/ GetGrades(AuthInputs)
    \/ GetGpa(AuthInputs)
    \/ DeleteGrade(AuthInputs)

SpecAuth == Init /\ [][NextAuth]_vars

-----------------------------------------------------------------------------
(* Errors: one user; creates that lack a required field, requests on ids    *)
(* that no document has and on malformed ids, updates that cannot be cast,  *)
(* and requests during which the store fails.                               *)

GradePart(present) ==
    [present |-> present, course |-> "math", score |-> 90, creditHours |-> 3]

AllOps ==
    {OpGetNotes, OpPostNotes, OpPutNote, OpDeleteNote, OpDeleteNotePermanent, OpGetTags,
     OpPostGrades, OpGetGrades, OpGetGpa, OpDeleteGrade}

ErrorInputs ==
    [auths       |-> {Bearer("tok1")},
     ops         |-> AllOps,
     queries     |-> {NoQuery},
     creates     |-> {Patch([title |-> "t1", content |-> "c1"]),
                      Patch([title |-> "t1"]),
                      Patch([content |-> "c1"]),
                      Patch([title |-> "", content |-> "c1"]),
                      NoBody},
     updates     |-> {Patch([title |-> "t2"]), Patch([isPinned |-> "maybe"]),
                      Patch([title |-> "t2", isPinned |-> "maybe"])},
     gradeInputs |-> {GradePart(p) : p \in SUBSET {"course", "score", "creditHours"}},
     ticks       |-> {1},
     maxNotes    |-> MaxErrorDocs,
     maxGrades   |-> MaxErrorDocs]

NextErrors ==
    \/ GetNotes(ErrorInputs)
    \/ PostNotes(ErrorInputs)
    \/ PutNote(ErrorInputs)
    \/ DeleteNote(ErrorInputs)
    \/ DeleteNotePermanent(ErrorInputs)
    \/ GetTags(ErrorInputs)
    \/ PostGrades(ErrorInputs)
    \/ GetGrades(ErrorInputs)
    \/ GetGpa(ErrorInputs)
    \/ DeleteGrade(ErrorInputs)
    \/ StorageFault(ErrorInputs)

SpecErrors == Init /\ [][NextErrors]_vars

-----------------------------------------------------------------------------
(* Isolation: two signed-in users, each creating, changing and deleting    *)
(* notes and grade records.                                                 *)

IsolationInputs ==
    [auths       |-> {Bearer("tok1"), Bearer("tok2")},
     creates     |-> {Patch([title |-> "t1", content |-> "c1", courseTag |-> <<"a">>])},
     updates     |-> {Patch([courseTag |-> <<"b">>, isDeleted |-> JsTrue])},
     gradeInputs |-> {GradeBody("math", 90, 3)},
     ticks       |-> {1},
     maxNotes    |-> MaxNotes,
     maxGrades   |-> MaxGrades]

NextIsolation ==
    \/ PostNotes(IsolationInputs)
    \/ PutNote(IsolationInputs)
    \/ DeleteNotePermanent(IsolationInputs)
    \/ PostGrades(IsolationInputs)
    \/ DeleteGrade(IsolationInputs)

SpecIsolation == Init /\ [][NextIsolation]_vars

-----------------------------------------------------------------------------
(* Tags: one user; notes created with a tag, with an empty tag and with     *)
(* none, archived, soft-deleted, permanently deleted, given a null tag.     *)

TagInputs ==
    [auths    |-> {Bearer("tok1")},
     creates  |-> {Patch([title |-> "t1", content |-> "c1", courseTag |-> t]) :
                     t \in {<<"a">>, <<>>, UndefinedTag}},
     updates  |-> {Patch([isArchived |-> JsTrue]), Patch([courseTag |-> NullTag])},
     ticks    |-> {1},
     maxNotes |-> MaxNotes]

NextTags ==
    \/ PostNotes(TagInputs)
    \/ PutNote(TagInputs)
    \/ DeleteNote(TagInputs)
    \/ DeleteNotePermanent(TagInputs)
    \/ GetTags(TagInputs)

SpecTags == Init /\ [][NextTags]_vars

-----------------------------------------------------------------------------
(* Concurrency: one user, whose updates, soft deletes and permanent deletes *)
(* of the same note and of different notes overlap in time.                 *)

ConcurrentInputs ==
    [auths    |-> {Bearer("tok1")},
     creates  |-> NewNotes,
     updates  |-> {Patch([title |-> "t2"]), Patch([title |-> "t3", content |-> "c2"])},
     ticks    |-> {1},
     maxNotes |-> MaxNotes]

NextConcurrent ==
    \/ inflight.ops = <<>> /\ PostNotes(ConcurrentInputs)
    \/ Receive(ConcurrentInputs)
    \/ Apply
    \/ Settle

SpecConcurrent == Init /\ [][NextConcurrent]_vars

-----------------------------------------------------------------------------
(* Registration: register requests for two userIds, with and without an     *)
(* email, overlapping in time.                                              *)

RegisterInputs ==
    [registrations  |-> {[userId |-> u, email |-> e] :
                           u \in {"u1", "u2"}, e \in {"e1", "e2", Undefined}},
     maxRegistering |-> MaxRegistering]

NextRegister ==
    \/ RegisterFind(RegisterInputs)
    \/ RegisterSave

SpecRegister == Init /\ [][NextRegister]_vars

-----------------------------------------------------------------------------
(* C1 *)

IdOps == {OpPutNote, OpDeleteNote, OpDeleteNotePermanent}

\* The requests on an id that the users of the ownership scenario can send.
OwnershipRequests(id) ==
    {Request(op, a, id, NoQuery, b) :
        op \in IdOps, a \in OwnershipInputs.auths, b \in OwnershipInputs.updates}

NotFound(coll) == {Outcome(Response(404, "Note not found or access denied", <<>>), coll)}

\* C1: in every reachable state, an update, a soft delete and a permanent
\* delete sent by one user with the id of a note another user owns is
\* answered NotFound and leaves the collection as it was, and the answer is
\* the one the same request gets with an id that no note has.
C1_ForeignNoteIsNotFound ==
    \A n \in notes :
        \A r \in OwnershipRequests(n._id) :
            authMiddleware(r).user # n.userId =>
                /\ noteRoutes(r, notes) = NotFound(notes)
                /\ \A m \in 1..(MaxNotes + 1) :
                       (\A k \in notes : k._id # m) =>
                           noteRoutes([r EXCEPT !.id = m], notes) = noteRoutes(r, notes)

\* A user has just sent an update with the id of another user's note.
C1_Witness ==
    /\ req.op = OpPutNote
    /\ res.status = 404
    /\ \E n \in notes : n._id = req.id /\ n.userId # authMiddleware(req).user

-----------------------------------------------------------------------------
(* Views, as the list route reports them *)

ViewNames == {Undefined, "archive", "deleted"}

Range(f) == {f[i] : i \in DOMAIN f}

\* The _ids GET /api/notes?view=... returns to user from collection coll.
Listed(coll, user, view) ==
    UNION {{n._id : n \in Range(o.res.body)} :
             o \in getNotes(Request(OpGetNotes, Bearer(Undefined), 0,
                                    [view |-> view, courseTag |-> UndefinedTag], NoBody),
                            user, coll)}

\* The views that show the note with this _id to user.
ViewsOf(coll, user, id) == {v \in ViewNames : id \in Listed(coll, user, v)}

\* The collection after the one outcome of a request on the notes.
After(r, coll) == (CHOOSE o \in noteRoutes(r, coll) : TRUE).coll

TokenOf(user) == CHOOSE t \in DOMAIN Sessions : Sessions[t] = user

\* PUT /api/notes/:id with this body, and the two deletes, sent by user.
PutBy(user, id, fields) == Request(OpPutNote, Bearer(TokenOf(user)), id, NoQuery, Patch(fields))
DeleteBy(user, id) == Request(OpDeleteNote, Bearer(TokenOf(user)), id, NoQuery, NoBody)
PurgeBy(user, id) ==
    Request(OpDeleteNotePermanent, Bearer(TokenOf(user)), id, NoQuery, NoBody)

-----------------------------------------------------------------------------
(* C2 *)

\* C2: in every reachable state every stored note is returned by exactly
\* one of its owner's default, archive and deleted lists.
C2_ExactlyOneView ==
    \A n \in notes : Cardinality(ViewsOf(notes, n.userId, n._id)) = 1

-----------------------------------------------------------------------------
(* C3 *)

\* C3: from every reachable state, a note its owner sees in the default or
\* the archive view is, after a soft delete (the delete route, or an update
\* with isDeleted true), in the deleted view only; after an update with
\* isDeleted false that follows, it is in the view it was in before and not
\* in the deleted view.
C3_SoftDeleteAndRestore ==
    \A n \in notes :
        LET u == n.userId
            before == ViewsOf(notes, u, n._id)
        IN  before \in {{Undefined}, {"archive"}} =>
                \A sd \in {DeleteBy(u, n._id), PutBy(u, n._id, [isDeleted |-> JsTrue])} :
                    LET trashed == After(sd, notes)
                        restored == After(PutBy(u, n._id, [isDeleted |-> JsFalse]), trashed)
                    IN  /\ ViewsOf(trashed, u, n._id) = {"deleted"}
                        /\ ViewsOf(restored, u, n._id) = before

\* An update with isDeleted false has just put a note back in the archive view.
C3_Witness ==
    /\ req.op = OpPutNote
    /\ req.body.isDeleted = JsFalse
    /\ req.body.isArchived = Undefined
    /\ res.status = 200
    /\ ViewsOf(notes, authMiddleware(req).user, req.id) = {"archive"}

-----------------------------------------------------------------------------
(* C4 *)

\* C4 as claimed: a permanent delete removes a note only when its isDeleted
\* flag is true; on an active or archived note it removes nothing.
C4_OnlyTrashedIsRemoved ==
    \A n \in notes :
        n \notin After(PurgeBy(n.userId, n._id), notes) => n.isDeleted = JsTrue

\* C4 as amended: a permanent delete by the owner removes the note whatever
\* its flags are and leaves every other note as it is, and no step removes a
\* note from the collection but the owner's permanent delete of that note,
\* answered 204.
C4_OwnerPurgeRemovesAnyNote ==
    [][/\ \A n \in notes :
            noteRoutes(PurgeBy(n.userId, n._id), notes)
                = {Outcome(Response(204, "", <<>>), notes \ {n})}
       /\ \A n \in notes :
            (\A k \in notes' : k._id # n._id) =>
                /\ req'.op = OpDeleteNotePermanent
                /\ req'.id = n._id
                /\ authMiddleware(req').user = n.userId
                /\ res'.status = 204]_vars

\* A permanent delete has just removed a note.
C4_Witness ==
    /\ req.op = OpDeleteNotePermanent
    /\ res.status = 204
    /\ req.id \in 1..noteSeq
    /\ \A n \in notes : n._id # req.id

-----------------------------------------------------------------------------
(* C5 *)

NoteWithId(coll, id) == CHOOSE n \in coll : n._id = id

\* A step in which PUT /api/notes/:id was answered 200.
UpdateSucceeded == req'.op = OpPutNote /\ res'.status = 200

\* What an update leaves alone: the fields the body does not hold, _id,
\* userId and createdAt of the note, and every other note.
UpdateFrame(old, new) ==
    /\ \A f \in NoteFields : IsUndefined(f, req'.body[f]) => new[f] = old[f]
    /\ new._id = old._id /\ new.userId = old.userId /\ new.createdAt = old.createdAt
    /\ notes' \ {new} = notes \ {old}

\* C5 as claimed: after a successful update every field the request holds
\* has exactly the supplied value, every field it does not hold has its
\* previous value, and _id, userId and createdAt are unchanged.
C5_MergePatchExact ==
    [][UpdateSucceeded =>
        LET old == NoteWithId(notes, req'.id)
            new == NoteWithId(notes', req'.id)
        IN  /\ UpdateFrame(old, new)
            /\ \A f \in NoteFields :
                   ~IsUndefined(f, req'.body[f]) => new[f] = req'.body[f]]_vars

\* C5 as amended: the same, a supplied courseTag being stored without its
\* leading and trailing whitespace.
C5_MergePatchTrimmed ==
    [][UpdateSucceeded =>
        LET old == NoteWithId(notes, req'.id)
            new == NoteWithId(notes', req'.id)
        IN  /\ UpdateFrame(old, new)
            /\ \A f \in NoteFields :
                   ~IsUndefined(f, req'.body[f]) =>
                       new[f] = IF f = "courseTag" THEN Trim(req'.body[f])
                                ELSE req'.body[f]]_vars

\* An update that held only the content has just changed it, the note having
\* been given another title before.
C5_Witness ==
    /\ req.op = OpPutNote
    /\ res.status = 200
    /\ req.body = Patch([content |-> "c2"])
    /\ \E n \in notes : n._id = req.id /\ n.title = "t2" /\ n.content = "c2"

-----------------------------------------------------------------------------
(* C7 *)

Blank(tag) == tag = UndefinedTag \/ Trim(tag) = <<>>

\* C7: every note a create has just stored is owned by the caller, has its
\* three flags false whatever the payload held, and has the courseTag
\* "General" when the supplied one is absent or blank, the supplied one
\* otherwise.
C7_CreateDefaults ==
    (req.op = OpPostNotes /\ res.status = 201) =>
        LET n == res.body[1]
        IN  /\ n \in notes
            /\ n.userId = authMiddleware(req).user
            /\ n.isPinned = JsFalse /\ n.isArchived = JsFalse /\ n.isDeleted = JsFalse
            /\ n.courseTag = IF Blank(req.body.courseTag) THEN General
                             ELSE req.body.courseTag

-----------------------------------------------------------------------------
(* C6 *)

Pinned(n) == n.isPinned = JsTrue

\* C6: in every list a request has just returned, every pinned note comes
\* before every note that is not pinned, and within the pinned notes and
\* within the others createdAt never increases.
C6_PinnedFirstNewestFirst ==
    (req.op = OpGetNotes /\ res.status = 200) =>
        \A i, j \in 1..Len(res.body) :
            i < j =>
                /\ Pinned(res.body[j]) => Pinned(res.body[i])
                /\ Pinned(res.body[i]) = Pinned(res.body[j])
                       => res.body[i].createdAt >= res.body[j].createdAt

-----------------------------------------------------------------------------
(* C8 *)

\* The threshold table of the grade calculator: lower bound, letter, points
\* in hundredths.
BandTable ==
    <<[min |-> 85, letter |-> "A+", points |-> 400],
      [min |-> 75, letter |-> "A",  points |-> 375],
      [min |-> 70, letter |-> "B+", points |-> 350],
      [min |-> 65, letter |-> "B",  points |-> 300],
      [min |-> 60, letter |-> "C+", points |-> 250],
      [min |-> 50, letter |-> "C",  points |-> 200]>>

\* The band of a score: the first row whose lower bound it reaches, F below
\* them all.
BandOf(score) ==
    IF \E k \in DOMAIN BandTable : score >= BandTable[k].min
    THEN LET k == CHOOSE i \in DOMAIN BandTable :
                      /\ score >= BandTable[i].min
                      /\ \A j \in DOMAIN BandTable : score >= BandTable[j].min => i <= j
         IN  [letter |-> BandTable[k].letter, points |-> BandTable[k].points]
    ELSE [letter |-> "F", points |-> 0]

\* C8: the letter and the points stored with every grade record are those
\* of one band, the band of its score, each band closed on its lower bound.
C8_SameBand ==
    \A g \in grades : [letter |-> g.grade, points |-> g.gpa] = BandOf(g.score)

\* Records at a lower bound and right below it, above 100 and below 0.
C8_Witness ==
    /\ \E g \in grades : g.score = 85 /\ g.grade = "A+" /\ g.gpa = 400
    /\ \E g \in grades : g.score \in {84, 101, -1}

-----------------------------------------------------------------------------
(* C9 *)

\* The sum over the records of creditHours, or of gpa * creditHours.
RECURSIVE SumOf(_, _)
SumOf(records, weighted) ==
    IF records = {} THEN 0
    ELSE LET g == CHOOSE x \in records : TRUE
         IN  (IF weighted THEN g.gpa * g.creditHours ELSE g.creditHours)
             + SumOf(records \ {g}, weighted)

\* C9: the answer to GET /api/gpa holds creditTotal, the sum of the caller's
\* creditHours, and gpa, a number in every case: the credit-weighted mean of
\* the grade points (to two decimals) when creditTotal > 0, and 0 otherwise.
C9_CumulativeGpa ==
    (req.op = OpGetGpa /\ res.status = 200) =>
        LET records == GradeFind(grades, authMiddleware(req).user)
            creditTotal == SumOf(records, FALSE)
            answer == res.body[1]
        IN  /\ answer.creditTotal = creditTotal
            /\ answer.gpa.type = "number"
            /\ answer.gpa.hundredths =
                   IF creditTotal > 0
                   THEN (2 * SumOf(records, TRUE) + creditTotal) \div (2 * creditTotal)
                   ELSE 0

-----------------------------------------------------------------------------
(* C10 *)

\* The request carries a token that Supabase resolves to a user.
ResolvedIdentity(r) ==
    /\ Len(r.authorization) >= 2
    /\ r.authorization[2] \in DOMAIN Sessions

NoteOrGradeOps ==
    {OpGetNotes, OpPostNotes, OpPutNote, OpDeleteNote, OpDeleteNotePermanent, OpGetTags,
     OpPostGrades, OpGetGrades, OpGetGpa, OpDeleteGrade}

\* C10: every step that handles a note or grade request without a resolved
\* identity answers 401 and leaves the notes and the grade records as they
\* were.
C10_UnauthorizedWithoutIdentity ==
    [][(req'.op \in NoteOrGradeOps /\ ~ResolvedIdentity(req')) =>
          /\ res'.status = 401
          /\ notes' = notes
          /\ grades' = grades]_vars

\* A request with a cookie and no Authorization header has just been
\* answered 401 while a note and a grade record are stored.
C10_Witness ==
    /\ req.op = OpDeleteNotePermanent
    /\ req.authorization = <<>>
    /\ req.cookie = "ck"
    /\ res.status = 401
    /\ \E n \in notes : n._id = req.id
    /\ grades # {}

-----------------------------------------------------------------------------
(* C11 *)

\* A create that lacks a required field: a note without title or
\* content, a grade record without course or creditHours.
InvalidCreate(r) ==
    /\ ResolvedIdentity(r)
    /\ ~r.fault
    /\ \/ r.op = OpPostNotes /\ Undefined \in {r.body.title, r.body.content}
       \/ r.op = OpPostGrades /\ ~({"course", "creditHours"} \subseteq r.body.present)

\* The answers a route gives when the store fails.
InternalErrors(op) == {o.res : o \in Catch(op, {})}

\* C11: every step that handles a create lacking a required field answers
\* the caller with a client error that is not an answer the route gives to a
\* failure of the store, and leaves the notes and grade records as they
\* were.
C11_InvalidInputReported ==
    [][InvalidCreate(req') =>
          /\ res'.status \in 400..499
          /\ res' \notin InternalErrors(req'.op)
          /\ notes' = notes
          /\ grades' = grades]_vars

-----------------------------------------------------------------------------
(* C12 *)

Users == {Sessions[t] : t \in DOMAIN Sessions}

OwnedBy(coll, user) == {e \in coll : e.userId = user}

\* The read requests a user can send: the three lists and a list by tag,
\* the tags, the grade records and the cumulative GPA.
NoteReads(user) ==
    {Request(OpGetNotes, Bearer(TokenOf(user)), 0, q, NoBody) :
        q \in Views \cup {[view |-> Undefined, courseTag |-> t] : t \in {<<"a">>, <<"b">>}}}
    \cup {Request(OpGetTags, Bearer(TokenOf(user)), 0, NoQuery, NoBody)}

GradeReads(user) ==
    {Request(op, Bearer(TokenOf(user)), 0, NoQuery, NoBody) : op \in {OpGetGrades, OpGetGpa}}

\* What each read request of the user may be answered from these collections.
Reads(user, ns, gs) ==
    [r \in NoteReads(user) \cup GradeReads(user) |->
        IF r \in NoteReads(user) THEN {o.res : o \in noteRoutes(r, ns)}
        ELSE {o.res : o \in gradeRoutes(r, gs)}]

\* The documents an answer to a list of notes or of grade records holds.
Returned(user, ns, gs) ==
    UNION {UNION {Range(a.body) : a \in Reads(user, ns, gs)[r]} :
             r \in {q \in NoteReads(user) \cup GradeReads(user) :
                      q.op \in {OpGetNotes, OpGetGrades}}}

\* The collections a write request of the user may leave: a create, an
\* update, a soft delete and a permanent delete of a note, a create and a
\* delete of a grade record.
NotesAfterWriteBy(user) ==
    {o.coll : o \in UNION (
        {noteRoutes(Request(op, Bearer(TokenOf(user)), id, NoQuery, b), notes) :
            op \in IdOps, id \in 1..MaxNotes, b \in IsolationInputs.updates}
        \cup {Route(r, notes, postNotes(r, user, notes, noteSeq + 1, clock + 1)) :
                 r \in {Request(OpPostNotes, Bearer(TokenOf(user)), 0, NoQuery, b) :
                          b \in IsolationInputs.creates}})}

GradesAfterWriteBy(user) ==
    {o.coll : o \in UNION (
        {gradeRoutes(Request(OpDeleteGrade, Bearer(TokenOf(user)), id, NoQuery, NoBody),
                     grades) : id \in 1..MaxGrades}
        \cup {Route(r, grades, postGrades(r, user, grades, gradeSeq + 1, clock + 1)) :
                 r \in {Request(OpPostGrades, Bearer(TokenOf(user)), 0, NoQuery, b) :
                          b \in IsolationInputs.gradeInputs}})}

\* C12: in every reachable state and for every user, what the user's lists,
\* tags, grade list and cumulative GPA return is what they return from the
\* user's own notes and grade records alone, every document returned is
\* owned by the user, and no create, update or delete sent by another user
\* changes any of it.
C12_ReadsIsolated ==
    \A u \in Users :
        LET now == Reads(u, notes, grades)
        IN  /\ now = Reads(u, OwnedBy(notes, u), OwnedBy(grades, u))
            /\ \A e \in Returned(u, notes, grades) : e.userId = u
            /\ \A v \in Users \ {u} :
                  /\ \A ns \in NotesAfterWriteBy(v) : Reads(u, ns, grades) = now
                  /\ \A gs \in GradesAfterWriteBy(v) : Reads(u, notes, gs) = now

\* The second user has just created a grade record while both users own a
\* note and the first user owns a grade record.
C12_Witness ==
    /\ req.op = OpPostGrades
    /\ res.status = 201
    /\ authMiddleware(req).user = "u2"
    /\ \A u \in Users : OwnedBy(notes, u) # {}
    /\ \A u \in Users : OwnedBy(grades, u) # {}

-----------------------------------------------------------------------------
(* C13 *)

\* The non-empty tags of the user's notes that are neither archived nor
\* deleted.
ActiveTags(coll, user) ==
    {n.courseTag : n \in {m \in coll : /\ m.userId = user
                                        /\ m.isArchived = JsFalse
                                        /\ m.isDeleted = JsFalse
                                        /\ m.courseTag \notin {<<>>, NullTag}}}

\* C13: in every reachable state, every answer GET /api/tags may give a
\* user is a list without duplicates of exactly the non-empty tags of the
\* user's notes that are neither archived nor deleted.
C13_DistinctActiveTags ==
    \A u \in Users :
        \A o \in noteRoutes(Request(OpGetTags, Bearer(TokenOf(u)), 0, NoQuery, NoBody), notes) :
            /\ o.res.status = 200
            /\ Range(o.res.body) = ActiveTags(notes, u)
            /\ Len(o.res.body) = Cardinality(ActiveTags(notes, u))

\* GET /api/tags has just answered with no tag while one note with the tag
\* "a" is archived and the other one with that tag is in the trash.
C13_Witness ==
    /\ req.op = OpGetTags
    /\ res.status = 200
    /\ res.body = <<>>
    /\ \E n \in notes : n.courseTag = <<"a">> /\ n.isArchived = JsTrue
    /\ \E n \in notes : n.courseTag = <<"a">> /\ n.isDeleted = JsTrue

-----------------------------------------------------------------------------
(* C14 *)

\* C14: every note or grade request of a signed-in caller that has been
\* handled has been answered, with a result or with a failure, also when the
\* store failed or rejected the data: none is left without a response.
C14_EveryRequestAnswered ==
    (req.op \in AllOps /\ ResolvedIdentity(req)) => res.status # 0

-----------------------------------------------------------------------------
(* C15 *)

\* The _ids of the notes that were created and are stored no more: a note
\* leaves the collection by a permanent delete only.
Purged(coll, seq) == {id \in 1..seq : \A n \in coll : n._id # id}

\* The note with this _id is in no list of any user, no answer of GET
\* /api/tags holds a tag that is not the tag of a stored note, and every
\* update, soft delete and permanent delete of the _id by any user is
\* answered NotFound.
Gone(id, coll) ==
    \A u \in Users :
        /\ ViewsOf(coll, u, id) = {}
        /\ \A o \in noteRoutes(Request(OpGetTags, Bearer(TokenOf(u)), 0, NoQuery, NoBody),
                                coll) :
               Range(o.res.body) \subseteq {n.courseTag : n \in OwnedBy(coll, u)}
        /\ \A r \in OwnershipRequests(id) : noteRoutes(r, coll) = NotFound(coll)

\* C15: after every step, every permanently deleted note is gone, and a
\* note that was permanently deleted before the step still is after it.
C15_PurgeIsIrreversible ==
    [][/\ \A id \in Purged(notes', noteSeq') : Gone(id, notes')
       /\ Purged(notes, noteSeq) \subseteq Purged(notes', noteSeq')]_vars

\* An update of a permanently deleted note has just been answered NotFound,
\* a note created after the permanent delete being stored.
C15_Witness ==
    /\ req.op = OpPutNote
    /\ res.status = 404
    /\ req.id \in Purged(notes, noteSeq)
    /\ \E n \in notes : n._id > req.id

-----------------------------------------------------------------------------
(* C16 *)

\* A step in which an update holding isDeleted false and nothing else was
\* answered 200 for a note that was in the trash.
Restored ==
    /\ req'.op = OpPutNote
    /\ req'.body = Patch([isDeleted |-> JsFalse])
    /\ res'.status = 200
    /\ NoteWithId(notes, req'.id).isDeleted = JsTrue

\* C16 as claimed: a restored note has isArchived false and isDeleted false
\* whatever its isArchived flag was in the trash, and is in the default list.
C16_RestoreIsActive ==
    [][Restored =>
          LET new == NoteWithId(notes', req'.id)
          IN  /\ new.isArchived = JsFalse
              /\ new.isDeleted = JsFalse
              /\ ViewsOf(notes', new.userId, new._id) = {Undefined}]_vars

\* C16 as amended: a restored note has isDeleted false and the isArchived
\* flag it had in the trash: it is in the default list when that flag is
\* false and in the archive list, not in the default list, when it is true.
C16_RestoreKeepsArchived ==
    [][Restored =>
          LET old == NoteWithId(notes, req'.id)
              new == NoteWithId(notes', req'.id)
          IN  /\ new.isDeleted = JsFalse
              /\ new.isArchived = old.isArchived
              /\ old.isArchived = JsFalse =>
                     ViewsOf(notes', new.userId, new._id) = {Undefined}
              /\ old.isArchived = JsTrue =>
                     ViewsOf(notes', new.userId, new._id) = {"archive"}]_vars

\* A restore has just been answered with a note that is archived and not
\* deleted, and the note is in the archive list only.
C16_Witness ==
    /\ req.op = OpPutNote
    /\ req.body = Patch([isDeleted |-> JsFalse])
    /\ res.status = 200
    /\ res.body[1].isArchived = JsTrue
    /\ res.body[1].isDeleted = JsFalse
    /\ ViewsOf(notes, res.body[1].userId, req.id) = {"archive"}

-----------------------------------------------------------------------------
(* C17 *)

\* Success, NotFound, or another failure.
OutcomeKind(response) ==
    IF response.status \in 200..299 THEN "success"
    ELSE IF response.status = 404 THEN "NotFound"
    ELSE "failure"

\* The collection and the kind of answer of every outcome of a request.
Effects(r, coll) == {[coll |-> o.coll, kind |-> OutcomeKind(o.res)] : o \in noteRoutes(r, coll)}

\* The callers of the ownership scenario, and one whose token is not valid.
Callers == OwnershipInputs.auths \cup {Bearer("bad")}

\* C17: in every reachable state, for every _id (of a stored note, of none,
\* malformed) and every caller, DELETE /api/notes/:id and PUT /api/notes/:id
\* with the body {isDeleted: true} leave the same collection with the same
\* kind of answer; the soft delete of a caller's own note succeeds, also
\* when the note is in the trash already, and changes nothing but the
\* note's isDeleted, which it sets to true.
C17_SoftDeleteIsUpdate ==
    /\ \A id \in 0..(MaxNotes + 1), a \in Callers :
           Effects(Request(OpDeleteNote, a, id, NoQuery, NoBody), notes)
               = Effects(Request(OpPutNote, a, id, NoQuery, Patch([isDeleted |-> JsTrue])),
                         notes)
    /\ \A n \in notes :
           Effects(DeleteBy(n.userId, n._id), notes)
               = {[coll |-> (notes \ {n}) \cup {[n EXCEPT !.isDeleted = JsTrue]},
                   kind |-> "success"]}

\* A soft delete has just succeeded on a note that had been given another
\* title, while the other user's note is in the trash.
C17_Witness ==
    /\ req.op = OpDeleteNote
    /\ res.status = 204
    /\ \E n \in notes : n._id = req.id /\ n.title = "t2" /\ n.isDeleted = JsTrue
    /\ \E n \in notes : n._id # req.id /\ n.isDeleted = JsTrue
                          /\ n.userId # authMiddleware(req).user

-----------------------------------------------------------------------------
(* C18 *)

\* C18: after every step every stored grade record has the letter and the
\* points of the band of its score; a record a create has just stored has
\* the score and the creditHours of the request; and every record stored
\* before the step is either stored unchanged after it or stored no more.
C18_GradeRecordsFrozen ==
    [][/\ \A g \in grades' : g.grade = BandOf(g.score).letter /\ g.gpa = BandOf(g.score).points
       /\ (req'.op = OpPostGrades /\ res'.status = 201) =>
              /\ res'.body[1] \in grades' \ grades
              /\ res'.body[1].score = req'.body.score
              /\ res'.body[1].creditHours = req'.body.creditHours
       /\ \A g \in grades : \A h \in grades' : h._id = g._id => h = g]_vars

\* A grade record has just been deleted, and the record that stays was
\* created with a score above 100.
C18_Witness ==
    /\ req.op = OpDeleteGrade
    /\ res.status = 204
    /\ \E g \in grades : g._id # req.id /\ g.score = 101 /\ g.grade = "A+"

-----------------------------------------------------------------------------
(* C19 *)

\* The requests in flight that were applied, in the order they were applied
\* in.
AppliedInOrder(ops) ==
    [i \in 1..Cardinality(Applied(ops)) |-> ops[CHOOSE k \in DOMAIN ops : ops[k].at = i].r]

\* The collection after the requests of a sequence, run one at a time.
RECURSIVE Serial(_, _)
Serial(coll, requests) ==
    IF requests = <<>> THEN coll
    ELSE Serial(After(Head(requests), coll), Tail(requests))

OrdersOf(n) == {p \in [1..n -> 1..n] : \A i, j \in 1..n : i # j => p[i] # p[j]}

\* The applied requests that wrote field f of the note with this _id.
Writers(ops, id, f) ==
    {k \in Applied(ops) :
        /\ ops[k].r.id = id
        /\ \/ ops[k].r.op = OpPutNote /\ ~IsUndefined(f, ops[k].r.body[f])
           \/ ops[k].r.op = OpDeleteNote /\ f = "isDeleted"}

\* The value a request writes to field f.
Written(r, f) == IF r.op = OpDeleteNote THEN JsTrue ELSE CastUpdateVal(f, r.body[f])

\* C19: in every reachable state with requests in flight, the Note
\* collection is the one that running the applied requests one at a time
\* from the collection they found leaves, in some order (the
\* order they were applied in); a note none of them names is as it was
\* before them, and every field of a stored note that some of them wrote
\* has the value written by the one applied last.
C19_Serializable ==
    LET ops == inflight.ops
        requests == AppliedInOrder(ops)
    IN  ops # <<>> =>
            /\ notes = Serial(inflight.start, requests)
            /\ \E p \in OrdersOf(Len(requests)) :
                   notes = Serial(inflight.start, [i \in 1..Len(requests) |-> requests[p[i]]])
            /\ \A n \in inflight.start :
                   (\A k \in Applied(ops) : ops[k].r.id # n._id) => n \in notes
            /\ \A n \in notes : \A f \in NoteFields :
                   Writers(ops, n._id, f) # {} =>
                       LET last == CHOOSE k \in Writers(ops, n._id, f) :
                                       \A j \in Writers(ops, n._id, f) : ops[j].at <= ops[k].at
                       IN  n[f] = Written(ops[last].r, f)

\* Two updates of the same note that overlapped were both applied, the one
\* that arrived first being applied last, and one of them wrote a field the
\* other one did not.
C19_Witness ==
    /\ Len(inflight.ops) = 2
    /\ inflight.ops[1].at = 2
    /\ inflight.ops[2].at = 1
    /\ inflight.ops[1].r.op = OpPutNote
    /\ inflight.ops[2].r.op = OpPutNote
    /\ inflight.ops[1].r.id = inflight.ops[2].r.id
    /\ inflight.ops[1].r.body = Patch([title |-> "t2"])
    /\ inflight.ops[2].r.body = Patch([title |-> "t3", content |-> "c2"])
    /\ \E n \in notes : n._id = inflight.ops[1].r.id /\ n.title = "t2" /\ n.content = "c2"

-----------------------------------------------------------------------------
(* C20 *)

WriteOps ==
    {OpPostNotes, OpPutNote, OpDeleteNote, OpDeleteNotePermanent, OpPostGrades,
     OpDeleteGrade}

\* C20: every step that handles a create, an update, a soft delete or a
\* permanent delete of a note, or a create or a delete of a grade record,
\* and does not end in success leaves the notes and the grade records as
\* they were.
C20_FailureWritesNothing ==
    [][(req'.op \in WriteOps /\ OutcomeKind(res') # "success") =>
          notes' = notes /\ grades' = grades]_vars

\* An update holding a title and a flag that is no boolean has just been
\* answered 400, and the note it names has the title it was created with.
C20_Witness ==
    /\ req.op = OpPutNote
    /\ req.body = Patch([title |-> "t2", isPinned |-> "maybe"])
    /\ res.status = 400
    /\ \E n \in notes : n._id = req.id /\ n.title = "t1"

-----------------------------------------------------------------------------
(* C21 *)

\* A step in which a register request was answered.
RegisterAnswered == req'.op = OpRegister /\ Len(registering') <= Len(registering)

\* C21: after every step the User collection holds at most one document
\* for each userId, and every step that answers a register request for a
\* userId that has a document already, also one whose findOne found none,
\* answers 400 "User already exists".
C21_RegisterOncePerUserId ==
    [][/\ \A i, j \in DOMAIN users' : users'[i].userId = users'[j].userId => i = j
       /\ (RegisterAnswered /\ UserFindOne(users, req'.body.userId) # {}) =>
              res' = Response(400, "User already exists", <<>>)]_vars

====
